---- MODULE Spec2Model ----
(***************************************************************************)
(* Model of the memory journal of mem-moi (src/src/Journal.ts).            *)
(*                                                                         *)
(* Text is modelled as a sequence of one-character strings, so that the    *)
(* journal file, the JSON serialisation of an entry and the response of    *)
(* the model service are parsed and produced character by character.       *)
(* The fixed prose of the prompts is one opaque token per line.            *)
(***************************************************************************)
EXTENDS Integers, Sequences, FiniteSets, TLC

(***************************************************************************)
(* Bounds of the model.                                                    *)
(***************************************************************************)
\* number of calls (load, append, store, retrieve) made in one behaviour
MaxOps == 2
\* the clock runs from 0 to MaxClock milliseconds after the epoch
MaxClock == 1
\* number of calls made in one behaviour of a journal that is only
\* appended to and loaded
MaxLogOps == 4
\* number of calls made in one behaviour by two callers at the same time
MaxConcOps == 2

(***************************************************************************)
(* Strings: String.prototype.trim and String.prototype.split.              *)
(***************************************************************************)
WhiteSpace == {" ", "\n", "\t", "\r"}
Digits == {"0", "1", "2", "3", "4", "5", "6", "7", "8", "9"}

RECURSIVE trimStart(_)
trimStart(s) ==
    IF s # <<>> /\ Head(s) \in WhiteSpace THEN trimStart(Tail(s)) ELSE s

RECURSIVE trimEnd(_)
trimEnd(s) ==
    IF s # <<>> /\ s[Len(s)] \in WhiteSpace
    THEN trimEnd(SubSeq(s, 1, Len(s) - 1))
    ELSE s

trim(s) == trimEnd(trimStart(s))

\* s.split(sep) for a one-character separator; "".split(sep) is [""]
RECURSIVE split(_, _)
split(s, sep) ==
    LET hits == {i \in 1..Len(s) : s[i] = sep}
    IN  IF hits = {} THEN <<s>>
        ELSE LET i == CHOOSE k \in hits : \A j \in hits : k <= j
             IN  <<SubSeq(s, 1, i - 1)>> \o split(SubSeq(s, i + 1, Len(s)), sep)

\* parts.join(sep) for a separator given as text
RECURSIVE join(_, _)
join(parts, sep) ==
    IF parts = <<>> THEN <<>>
    ELSE IF Len(parts) = 1 THEN parts[1]
    ELSE parts[1] \o sep \o join(Tail(parts), sep)

(***************************************************************************)
(* JSON values: a value is a record tagged by its type t, with one field   *)
(* per type: null, bool (b a BOOLEAN), num (n an integer), str (s a text), *)
(* arr (a a sequence of values), obj (m a sequence of [k, v] members in    *)
(* source order).  The fields of the other types keep their defaults.      *)
(***************************************************************************)
JNull == [t |-> "null", b |-> FALSE, n |-> 0, s |-> <<>>, a |-> <<>>, m |-> <<>>]
JBool(b) == [JNull EXCEPT !.t = "bool", !.b = b]
JNum(n) == [JNull EXCEPT !.t = "num", !.n = n]
JStr(s) == [JNull EXCEPT !.t = "str", !.s = s]
JArr(a) == [JNull EXCEPT !.t = "arr", !.a = a]
JObj(m) == [JNull EXCEPT !.t = "obj", !.m = m]

\* the result of a parsing step: the value read and the next position,
\* or a SyntaxError
SyntaxError == [ok |-> FALSE, v |-> JNull, i |-> 0]
Parsed(val, next) == [ok |-> TRUE, v |-> val, i |-> next]

RECURSIVE skipWs(_, _)
skipWs(s, i) ==
    IF i <= Len(s) /\ s[i] \in WhiteSpace THEN skipWs(s, i + 1) ELSE i

startsWith(s, i, word) ==
    /\ i + Len(word) - 1 <= Len(s)
    /\ SubSeq(s, i, i + Len(word) - 1) = word

Unescape(c) ==
    CASE c = "n" -> "\n"
      [] c = "t" -> "\t"
      [] c = "r" -> "\r"
      [] OTHER -> c

\* an unterminated string, a bad escape or a control character
NoString == [ok |-> FALSE, s |-> <<>>, i |-> 0]

\* the characters after the opening quote of a JSON string, up to the
\* closing quote
RECURSIVE scanString(_, _, _)
scanString(s, i, acc) ==
    IF i > Len(s) THEN NoString
    ELSE IF s[i] = "\"" THEN [ok |-> TRUE, s |-> acc, i |-> i + 1]
    ELSE IF s[i] = "\\" THEN
        IF i + 1 <= Len(s) /\ s[i + 1] \in {"\"", "\\", "/", "n", "t", "r"}
        THEN scanString(s, i + 2, Append(acc, Unescape(s[i + 1])))
        ELSE NoString
    ELSE IF s[i] \in {"\n", "\t", "\r"} THEN NoString
    ELSE scanString(s, i + 1, Append(acc, s[i]))

DigitValue(c) ==
    CASE c = "0" -> 0 [] c = "1" -> 1 [] c = "2" -> 2 [] c = "3" -> 3
      [] c = "4" -> 4 [] c = "5" -> 5 [] c = "6" -> 6 [] c = "7" -> 7
      [] c = "8" -> 8 [] c = "9" -> 9

RECURSIVE scanDigits(_, _, _)
scanDigits(s, i, acc) ==
    IF i <= Len(s) /\ s[i] \in Digits
    THEN scanDigits(s, i + 1, 10 * acc + DigitValue(s[i]))
    ELSE [n |-> acc, i |-> i]

\* integers only: -?(0|[1-9][0-9]*)
scanNumber(s, i) ==
    LET neg == i <= Len(s) /\ s[i] = "-"
        j == IF neg THEN i + 1 ELSE i
    IN  IF j > Len(s) \/ s[j] \notin Digits THEN SyntaxError
        ELSE IF s[j] = "0" THEN Parsed(JNum(0), j + 1)
        ELSE LET r == scanDigits(s, j, 0)
             IN  Parsed(JNum(IF neg THEN 0 - r.n ELSE r.n), r.i)

RECURSIVE parseValue(_, _)
RECURSIVE parseElements(_, _, _)
RECURSIVE parseMembers(_, _, _)

\* a string scanned as r, as a value
stringValue(r) == IF r.ok THEN Parsed(JStr(r.s), r.i) ELSE SyntaxError

\* after "[" and white space, at position j
arrayFrom(s, j) ==
    IF j <= Len(s) /\ s[j] = "]" THEN Parsed(JArr(<<>>), j + 1)
    ELSE parseElements(s, j, <<>>)

\* after "{" and white space, at position j
objectFrom(s, j) ==
    IF j <= Len(s) /\ s[j] = "}" THEN Parsed(JObj(<<>>), j + 1)
    ELSE parseMembers(s, j, <<>>)

\* the value that starts at position i (white space already skipped)
parseValue(s, i) ==
    IF i > Len(s) THEN SyntaxError
    ELSE IF s[i] = "\"" THEN stringValue(scanString(s, i + 1, <<>>))
    ELSE IF s[i] = "[" THEN arrayFrom(s, skipWs(s, i + 1))
    ELSE IF s[i] = "{" THEN objectFrom(s, skipWs(s, i + 1))
    ELSE IF startsWith(s, i, <<"n", "u", "l", "l">>) THEN Parsed(JNull, i + 4)
    ELSE IF startsWith(s, i, <<"t", "r", "u", "e">>)
        THEN Parsed(JBool(TRUE), i + 4)
    ELSE IF startsWith(s, i, <<"f", "a", "l", "s", "e">>)
        THEN Parsed(JBool(FALSE), i + 5)
    ELSE scanNumber(s, i)

\* after the elements acc, at position j: "]" or "," and the next element
elementsNext(s, j, acc) ==
    IF j > Len(s) THEN SyntaxError
    ELSE IF s[j] = "]" THEN Parsed(JArr(acc), j + 1)
    ELSE IF s[j] = "," THEN parseElements(s, skipWs(s, j + 1), acc)
    ELSE SyntaxError

\* the element parsed as r after the elements acc
elementParsed(s, r, acc) ==
    IF r.ok THEN elementsNext(s, skipWs(s, r.i), Append(acc, r.v)) ELSE SyntaxError

\* the elements of an array from position i, up to the closing bracket
parseElements(s, i, acc) == elementParsed(s, parseValue(s, i), acc)

\* after the members acc, at position j: "}" or "," and the next member
membersNext(s, j, acc) ==
    IF j > Len(s) THEN SyntaxError
    ELSE IF s[j] = "}" THEN Parsed(JObj(acc), j + 1)
    ELSE IF s[j] = "," THEN parseMembers(s, skipWs(s, j + 1), acc)
    ELSE SyntaxError

\* the value of the member key parsed as r
memberParsed(s, key, r, acc) ==
    IF r.ok THEN membersNext(s, skipWs(s, r.i), Append(acc, [k |-> key, v |-> r.v]))
    ELSE SyntaxError

\* after the name key of a member, at position c: ":" and the value
memberColon(s, key, c, acc) ==
    IF c > Len(s) \/ s[c] # ":" THEN SyntaxError
    ELSE memberParsed(s, key, parseValue(s, skipWs(s, c + 1)), acc)

\* the name of a member scanned as k
memberKey(s, k, acc) ==
    IF k.ok THEN memberColon(s, k.s, skipWs(s, k.i), acc) ELSE SyntaxError

\* the members of an object from position i, up to the closing brace
parseMembers(s, i, acc) ==
    IF i > Len(s) \/ s[i] # "\"" THEN SyntaxError
    ELSE memberKey(s, scanString(s, i + 1, <<>>), acc)

\* the value parsed as r is the whole text, but for white space
wholeText(s, r) ==
    IF r.ok /\ skipWs(s, r.i) = Len(s) + 1 THEN [ok |-> TRUE, v |-> r.v]
    ELSE [ok |-> FALSE, v |-> JNull]

\* JSON.parse(text): [ok |-> TRUE, v |-> value], or ok = FALSE when it
\* throws a SyntaxError
JSONparse(s) == wholeText(s, parseValue(s, skipWs(s, 1)))

EscapeChar(c) ==
    CASE c = "\"" -> <<"\\", "\"">>
      [] c = "\\" -> <<"\\", "\\">>
      [] c = "\n" -> <<"\\", "n">>
      [] c = "\t" -> <<"\\", "t">>
      [] c = "\r" -> <<"\\", "r">>
      [] OTHER -> <<c>>

RECURSIVE escape(_)
escape(s) == IF s = <<>> THEN <<>> ELSE EscapeChar(Head(s)) \o escape(Tail(s))

\* the JSON text of a string
quote(s) == <<"\"">> \o escape(s) \o <<"\"">>

DigitChar(d) ==
    CASE d = 0 -> "0" [] d = 1 -> "1" [] d = 2 -> "2" [] d = 3 -> "3"
      [] d = 4 -> "4" [] d = 5 -> "5" [] d = 6 -> "6" [] d = 7 -> "7"
      [] d = 8 -> "8" [] d = 9 -> "9"

\* the decimal text of a natural number
RECURSIVE toDecimal(_)
toDecimal(n) ==
    IF n < 10 THEN <<DigitChar(n)>>
    ELSE toDecimal(n \div 10) \o <<DigitChar(n % 10)>>

\* the last n digits of a natural number, zero padded
RECURSIVE padDecimal(_, _)
padDecimal(n, width) ==
    IF width = 0 THEN <<>>
    ELSE padDecimal(n \div 10, width - 1) \o <<DigitChar(n % 10)>>

\* JSON.stringify(value) without indentation
RECURSIVE JSONstringify(_)
JSONstringify(val) ==
    CASE val.t = "null" -> <<"n", "u", "l", "l">>
      [] val.t = "bool" ->
            IF val.b THEN <<"t", "r", "u", "e">> ELSE <<"f", "a", "l", "s", "e">>
      [] val.t = "num" ->
            IF val.n < 0 THEN <<"-">> \o toDecimal(0 - val.n) ELSE toDecimal(val.n)
      [] val.t = "str" -> quote(val.s)
      [] val.t = "arr" ->
            <<"[">> \o join([i \in 1..Len(val.a) |-> JSONstringify(val.a[i])], <<",">>)
                    \o <<"]">>
      [] val.t = "obj" ->
            <<"{">> \o join([i \in 1..Len(val.m) |->
                                quote(val.m[i].k) \o <<":">> \o JSONstringify(val.m[i].v)],
                            <<",">>)
                    \o <<"}">>

(***************************************************************************)
(* Text constants.                                                         *)
(***************************************************************************)
ContentKey == <<"c", "o", "n", "t", "e", "n", "t">>
TagsKey == <<"t", "a", "g", "s">>
CreatedAtKey == <<"c", "r", "e", "a", "t", "e", "d", "A", "t">>
MemoryKey == <<"m", "e", "m", "o", "r", "y">>

STORE_SYSTEM_PROMPT ==
    <<"You are a memory filter and extractor. You will receive existing memories and a new interaction. Determine how surprising the interaction is relative to the memories and respond with a JSON object containing \"score\" (0-1) and \"memory\" fields.">>
RETRIEVE_SYSTEM_PROMPT ==
    <<"You are a memory retriever. Given an interaction and stored memories, select the most relevant memories and return them as a JSON array of strings.">>

\* `${entries.map(e => '- ' + e.content).join('\n')}` inside the template
makeStorePrompt(entries, interaction) ==
    <<"\n", "You are a memory filter working to identify novel or significant events.",
      "\n", "Existing memories:", "\n">>
    \o join([i \in 1..Len(entries) |-> <<"-", " ">> \o entries[i].content], <<"\n">>)
    \o <<"\n", "New interaction:", "\n", "\"", "\"", "\"">>
    \o interaction
    \o <<"\"", "\"", "\"", "\n",
         "If the interaction is novel or significant, rewrite it concisely as a new memory entry.",
         "\n", "Return strictly a JSON object: { \"memory\": string | null }", "\n">>

\* `${entries.map((e, i) => `[${i}] ${e.content}`).join('\n')}`: the index
\* is the position in the array, from 0
makeRetrievePrompt(entries, interaction) ==
    <<"\n", "You are a memory retriever tasked with selecting the most relevant memories to assist with a new interaction.",
      "\n", "Existing memories:", "\n">>
    \o join([i \in 1..Len(entries) |->
                <<"[">> \o toDecimal(i - 1) \o <<"]", " ">> \o entries[i].content],
            <<"\n">>)
    \o <<"\n", "New interaction:", "\n", "\"", "\"", "\"">>
    \o interaction
    \o <<"\"", "\"", "\"", "\n",
         "Determine which memories are most relevant to the interaction.",
         "\n", "Return strictly a JSON array of the selected memory strings.", "\n">>

(***************************************************************************)
(* The entry schema.                                                       *)
(***************************************************************************)
NoEntry == [content |-> <<>>, tags |-> <<>>, createdAt |-> <<>>]

hasKey(members, key) == \E i \in 1..Len(members) : members[i].k = key

\* the value of a property of a parsed object: the last member of that
\* name wins
getKey(members, key) ==
    LET hits == {i \in 1..Len(members) : members[i].k = key}
    IN  members[CHOOSE k \in hits : \A j \in hits : j <= k].v

allDigits(s, from, to) == \A i \in from..to : s[i] \in Digits

\* z.string().datetime(): YYYY-MM-DDTHH:MM:SS, an optional fraction, and Z
\* (no offset)
isDatetime(s) ==
    /\ Len(s) >= 20
    /\ allDigits(s, 1, 4) /\ s[5] = "-"
    /\ allDigits(s, 6, 7) /\ s[8] = "-"
    /\ allDigits(s, 9, 10) /\ s[11] = "T"
    /\ allDigits(s, 12, 13) /\ s[14] = ":"
    /\ allDigits(s, 15, 16) /\ s[17] = ":"
    /\ allDigits(s, 18, 19)
    /\ s[Len(s)] = "Z"
    /\ \/ Len(s) = 20
       \/ /\ Len(s) >= 22
          /\ s[20] = "."
          /\ allDigits(s, 21, Len(s) - 1)

\* z.array() without the type of its elements
isStringArray_unchecked(val) == val.t = "arr"

isStringArray(val) ==
    /\ val.t = "arr"
    /\ \A i \in 1..Len(val.a) : val.a[i].t = "str"

\* journalEntrySchema.parse(val): ok with the entry (unknown keys are
\* stripped), or not ok when it throws a ZodError
journalEntrySchema(val) ==
    IF /\ val.t = "obj"
       /\ hasKey(val.m, ContentKey) /\ getKey(val.m, ContentKey).t = "str"
       /\ hasKey(val.m, TagsKey) /\ isStringArray(getKey(val.m, TagsKey))
       /\ hasKey(val.m, CreatedAtKey) /\ getKey(val.m, CreatedAtKey).t = "str"
       /\ isDatetime(getKey(val.m, CreatedAtKey).s)
    THEN [ok |-> TRUE,
          v |-> [content |-> getKey(val.m, ContentKey).s,
                 tags |-> LET a == getKey(val.m, TagsKey).a
                          IN  [i \in 1..Len(a) |-> a[i].s],
                 createdAt |-> getKey(val.m, CreatedAtKey).s]]
    ELSE [ok |-> FALSE, v |-> NoEntry]

\* a JournalEntry object as a JSON value, its keys in the order in which
\* store builds it
entryValue(e) ==
    JObj(<<[k |-> ContentKey, v |-> JStr(e.content)],
           [k |-> TagsKey, v |-> JArr([i \in 1..Len(e.tags) |-> JStr(e.tags[i])])],
           [k |-> CreatedAtKey, v |-> JStr(e.createdAt)]>>)

\* new Date(ms).toISOString() for a time within the first day of the epoch
toISOString(ms) ==
    <<"1", "9", "7", "0", "-", "0", "1", "-", "0", "1", "T">>
    \o padDecimal(ms \div 3600000, 2) \o <<":">>
    \o padDecimal((ms \div 60000) % 60, 2) \o <<":">>
    \o padDecimal((ms \div 1000) % 60, 2) \o <<".">>
    \o padDecimal(ms % 1000, 3) \o <<"Z">>

(***************************************************************************)
(* The file system: a file that exists or not, and its text.               *)
(***************************************************************************)
NoFile == [exists |-> FALSE, text |-> <<>>]
FileOf(txt) == [exists |-> TRUE, text |-> txt]

\* a read that opens the file for appending, and so creates a missing one
readFile_creates(f, fault) ==
    IF ~f.exists THEN [status |-> "ENOENT", text |-> <<>>, fs |-> FileOf(<<>>)]
    ELSE IF fault THEN [status |-> "EACCES", text |-> <<>>, fs |-> f]
    ELSE [status |-> "ok", text |-> f.text, fs |-> f]

\* fs.readFile(path, "utf-8"): the outcome, the text read and the file
\* afterwards; fault is a read failure other than a missing file
readFile(f, fault) ==
    IF ~f.exists THEN [status |-> "ENOENT", text |-> <<>>, fs |-> f]
    ELSE IF fault THEN [status |-> "EACCES", text |-> <<>>, fs |-> f]
    ELSE [status |-> "ok", text |-> f.text, fs |-> f]

\* writeFile in the place of appendFile: the data replace the file
appendFile_overwrites(f, data, fault) ==
    IF fault THEN [status |-> "EACCES", fs |-> f]
    ELSE [status |-> "ok", fs |-> FileOf(data)]

\* fs.appendFile(path, data): the outcome and the file afterwards; the
\* file is created when it does not exist
appendFile(f, data, fault) ==
    IF fault THEN [status |-> "EACCES", fs |-> f]
    ELSE [status |-> "ok", fs |-> FileOf(f.text \o data)]

(***************************************************************************)
(* Journal.load                                                            *)
(***************************************************************************)
\* journalEntrySchema.parse(JSON.parse(line)), given what JSON.parse did
parsedLine(j) == IF j.ok THEN journalEntrySchema(j.v) ELSE [ok |-> FALSE, v |-> NoEntry]

\* the lines mapped from the last to the first
mapLines_reversed(lines) ==
    [i \in 1..Len(lines) |-> parsedLine(JSONparse(lines[Len(lines) + 1 - i]))]

\* txt.trim().split("\n").map(line => journalEntrySchema.parse(JSON.parse(line)))
mapLines(lines) == [i \in 1..Len(lines) |-> parsedLine(JSONparse(lines[i]))]

\* load without the trim of the text read
parseLines_untrimmed(txt) == mapLines(split(txt, "\n"))

parseLines(txt) == mapLines(split(trim(txt), "\n"))

\* load without its catch: every exception is thrown on
tryCatch_rethrows(read, parsed) ==
    IF read.status = "ok" /\ \A i \in 1..Len(parsed) : parsed[i].ok
    THEN [threw |-> FALSE, entries |-> [i \in 1..Len(parsed) |-> parsed[i].v]]
    ELSE [threw |-> TRUE, entries |-> <<>>]

\* the try block of load, and its catch: every exception (of readFile, of
\* JSON.parse, of the schema) is caught and an empty array returned
tryCatch(read, parsed) ==
    IF read.status = "ok" /\ \A i \in 1..Len(parsed) : parsed[i].ok
    THEN [threw |-> FALSE, entries |-> [i \in 1..Len(parsed) |-> parsed[i].v]]
    ELSE [threw |-> FALSE, entries |-> <<>>]

\* load(), given the outcome of its readFile
load(read) == tryCatch(read, parseLines(read.text))

\* the line of an entry without the newline after it
entryLine_unterminated(e) == JSONstringify(entryValue(e))

\* the data append writes for an entry
entryLine(e) == JSONstringify(entryValue(e)) \o <<"\n">>

\* append with the failure of its appendFile caught and dropped
append_swallows(f, entry, fault) ==
    [status |-> "ok", fs |-> appendFile(f, entryLine(entry), fault).fs]

\* Journal.append: the appendFile of the serialised entry and a newline
append(f, entry, fault) == appendFile(f, entryLine(entry), fault)

(***************************************************************************)
(* Journal.store and Journal.retrieve, step by step between their awaits.  *)
(***************************************************************************)
\* the argument of openai.chat.completions.create
\* a request with the prompt after the system instruction in one user message
chatRequest_userOnly(model, system, prompt) ==
    [model |-> model,
     temperature |-> 0,
     messages |-> <<[role |-> "user", content |-> system \o <<"\n">> \o prompt]>>]

chatRequest(model, system, prompt) ==
    [model |-> model,
     temperature |-> 0,
     messages |-> <<[role |-> "system", content |-> system],
                    [role |-> "user", content |-> prompt]>>]

storeRequest(entries, interaction, model) ==
    chatRequest(model, STORE_SYSTEM_PROMPT, makeStorePrompt(entries, interaction))

retrieveRequest(entries, interaction, model) ==
    chatRequest(model, RETRIEVE_SYSTEM_PROMPT, makeRetrievePrompt(entries, interaction))

\* store that appends the memory as the model wrote it, untrimmed
storeParsed_untrimmed(j, time) ==
    IF ~j.ok
    THEN [threw |-> TRUE, error |-> "SyntaxError", append |-> FALSE, entry |-> NoEntry]
    ELSE IF j.v.t = "null"
    THEN [threw |-> TRUE, error |-> "TypeError", append |-> FALSE, entry |-> NoEntry]
    ELSE IF /\ j.v.t = "obj"
            /\ hasKey(j.v.m, MemoryKey)
            /\ getKey(j.v.m, MemoryKey).t = "str"
            /\ trim(getKey(j.v.m, MemoryKey).s) # <<>>
    THEN [threw |-> FALSE, error |-> "none", append |-> TRUE,
          entry |-> [content |-> getKey(j.v.m, MemoryKey).s,
                     tags |-> <<>>,
                     createdAt |-> toISOString(time)]]
    ELSE [threw |-> FALSE, error |-> "none", append |-> FALSE, entry |-> NoEntry]

\* store that tests the memory for truth only: if (memory)
storeParsed_truthy(j, time) ==
    IF ~j.ok
    THEN [threw |-> TRUE, error |-> "SyntaxError", append |-> FALSE, entry |-> NoEntry]
    ELSE IF j.v.t = "null"
    THEN [threw |-> TRUE, error |-> "TypeError", append |-> FALSE, entry |-> NoEntry]
    ELSE IF /\ j.v.t = "obj"
            /\ hasKey(j.v.m, MemoryKey)
            /\ getKey(j.v.m, MemoryKey).t = "str"
            /\ getKey(j.v.m, MemoryKey).s # <<>>
    THEN [threw |-> FALSE, error |-> "none", append |-> TRUE,
          entry |-> [content |-> trim(getKey(j.v.m, MemoryKey).s),
                     tags |-> <<>>,
                     createdAt |-> toISOString(time)]]
    ELSE [threw |-> FALSE, error |-> "none", append |-> FALSE, entry |-> NoEntry]

\* store, after JSON.parse(raw) gave j: a SyntaxError is thrown on,
\* destructuring null throws a TypeError, and the memory property of any
\* other value is read (undefined when it has none)
storeParsed(j, time) ==
    IF ~j.ok
    THEN [threw |-> TRUE, error |-> "SyntaxError", append |-> FALSE, entry |-> NoEntry]
    ELSE IF j.v.t = "null"
    THEN [threw |-> TRUE, error |-> "TypeError", append |-> FALSE, entry |-> NoEntry]
    ELSE IF /\ j.v.t = "obj"
            /\ hasKey(j.v.m, MemoryKey)
            /\ getKey(j.v.m, MemoryKey).t = "str"
            /\ trim(getKey(j.v.m, MemoryKey).s) # <<>>
    THEN [threw |-> FALSE, error |-> "none", append |-> TRUE,
          entry |-> [content |-> trim(getKey(j.v.m, MemoryKey).s),
                     tags |-> <<>>,
                     createdAt |-> toISOString(time)]]
    ELSE [threw |-> FALSE, error |-> "none", append |-> FALSE, entry |-> NoEntry]

\* a store that throws when the memory of the response is neither a string
\* nor null
storeResponse_validated(raw, time) ==
    IF /\ JSONparse(raw).ok
       /\ JSONparse(raw).v.t = "obj"
       /\ hasKey(JSONparse(raw).v.m, MemoryKey)
       /\ getKey(JSONparse(raw).v.m, MemoryKey).t \notin {"str", "null"}
    THEN [threw |-> TRUE, error |-> "TypeError", append |-> FALSE, entry |-> NoEntry]
    ELSE storeParsed(JSONparse(raw), time)

\* store, from the response to the decision to append
storeResponse(raw, time) == storeParsed(JSONparse(raw), time)

\* retrieve without the early return
retrieveReturnsEarly_never(entries) == FALSE

\* retrieve returns [] before any request when the journal has no entries
retrieveReturnsEarly(entries) == Len(entries) = 0

\* the contents of the entries that the selection includes, in journal order
RECURSIVE selectedContents(_, _)
selectedContents(entries, selected) ==
    IF entries = <<>> THEN <<>>
    ELSE (IF \E i \in 1..Len(selected) :
                selected[i].t = "str" /\ selected[i].s = Head(entries).content
          THEN <<JStr(Head(entries).content)>>
          ELSE <<>>)
         \o selectedContents(Tail(entries), selected)

\* retrieve that returns entries.filter(e => selected.includes(e.content))
retrieveParsed_filtered(entries, j) ==
    IF ~j.ok
    THEN [threw |-> TRUE, error |-> "SyntaxError", value |-> JNull]
    ELSE [threw |-> FALSE, error |-> "none",
          value |-> JArr(selectedContents(entries, j.v.a))]

\* retrieve, after JSON.parse(raw) gave j: the parsed value is returned,
\* whatever its type
retrieveParsed(entries, j) ==
    IF ~j.ok
    THEN [threw |-> TRUE, error |-> "SyntaxError", value |-> JNull]
    ELSE [threw |-> FALSE, error |-> "none", value |-> j.v]

\* retrieve, from the response to the value returned
retrieveResponse(entries, raw) == retrieveParsed(entries, JSONparse(raw))

(***************************************************************************)
(* The earlier retrieve(interaction, k), which returns the contents of the *)
(* stored entries that the model selected (src/unnamed/part_001).          *)
(***************************************************************************)
\* the values of k given by the callers; 5 is the default
Ks == {0, 1, 5}

RETRIEVE_SYSTEM_PROMPT_K ==
    <<"You are a memory retriever. Given an interaction and stored memories, select the most relevant memories and return them as a JSON array of strings.">>

makeRetrievePromptK(entries, interaction, k) ==
    <<"\n", "You are a memory retriever tasked with selecting the most relevant memories to assist with a new interaction.",
      "\n", "Existing memories:", "\n">>
    \o join([i \in 1..Len(entries) |->
                <<"[">> \o toDecimal(i - 1) \o <<"]", " ">> \o entries[i].content],
            <<"\n">>)
    \o <<"\n", "New interaction:", "\n", "\"", "\"", "\"">>
    \o interaction
    \o <<"\"", "\"", "\"", "\n", "Select up to ">> \o toDecimal(k)
    \o <<" memories that best support responding to the interaction.",
         "\n", "Return strictly a JSON array of the selected memory strings.", "\n">>

retrieveRequestK(entries, interaction, k) ==
    chatRequest("gpt-4.1-nano", RETRIEVE_SYSTEM_PROMPT_K,
                makeRetrievePromptK(entries, interaction, k))

\* String.prototype.includes
isSubstring(sub, str) ==
    \E i \in 0..(Len(str) - Len(sub)) : SubSeq(str, i + 1, i + Len(sub)) = sub

\* selected.includes(content): Array.prototype.includes for an array,
\* String.prototype.includes for a string
includes(selected, content) ==
    IF selected.t = "arr"
    THEN \E i \in 1..Len(selected.a) :
            selected.a[i].t = "str" /\ selected.a[i].s = content
    ELSE isSubstring(content, selected.s)

\* entries.filter(e => selected.includes(e.content))
filterSelected(entries, selected) ==
    SelectSeq(entries, LAMBDA e : includes(selected, e.content))

\* Array.prototype.slice(0, k), for k >= 0
slice(seq, k) == SubSeq(seq, 1, IF k < Len(seq) THEN k ELSE Len(seq))

\* relevant.map(e => e.content), as a JSON value
contentsValue(entries) == JArr([i \in 1..Len(entries) |-> JStr(entries[i].content)])

\* a retrieve that returns the selected strings that are stored, in the
\* order in which the model listed them
retrieveFiltered_modelOrder(entries, j, k) ==
    IF ~j.ok
    THEN [threw |-> TRUE, error |-> "SyntaxError", value |-> JNull]
    ELSE IF j.v.t # "arr"
    THEN [threw |-> TRUE, error |-> "TypeError", value |-> JNull]
    ELSE [threw |-> FALSE, error |-> "none",
          value |-> JArr(slice(SelectSeq(j.v.a,
                                         LAMBDA v : /\ v.t = "str"
                                                    /\ \E i \in 1..Len(entries) :
                                                          entries[i].content = v.s),
                               k))]

\* the earlier retrieve, after JSON.parse(raw) gave j: the entries whose
\* content the selection includes, the first k of them; a selection that is
\* neither an array nor a string has no includes, and the call throws
retrieveFiltered(entries, j, k) ==
    IF ~j.ok
    THEN [threw |-> TRUE, error |-> "SyntaxError", value |-> JNull]
    ELSE IF j.v.t \notin {"arr", "str"}
    THEN [threw |-> TRUE, error |-> "TypeError", value |-> JNull]
    ELSE [threw |-> FALSE, error |-> "none",
          value |-> contentsValue(slice(filterSelected(entries, j.v), k))]

(***************************************************************************)
(* Inputs: entries, interactions, responses of the model service and the   *)
(* files the journal may find at its path.                                 *)
(***************************************************************************)
EntryA == [content |-> <<"a">>, tags |-> <<>>, createdAt |-> toISOString(0)]
EntryB == [content |-> <<"b">>, tags |-> <<>>, createdAt |-> toISOString(0)]
\* a content with a line break, a quote and a backslash, two tags, and a
\* date-time without a fraction
EntryC ==
    [content |-> <<" ", "c", "\n", "\"", "\\">>,
     tags |-> << <<"t">>, <<"u", " ">> >>,
     createdAt |-> <<"2", "0", "2", "5", "-", "0", "4", "-", "1", "9", "T",
                     "0", "0", ":", "0", "0", ":", "0", "0", "Z">>]

\* the valid entries a caller appends
Entries == {EntryA, EntryC}

Interactions == {<<"h", "i">>}

\* {"memory":<text>}
memoryResponse(valueText) ==
    <<"{">> \o quote(MemoryKey) \o <<":">> \o valueText \o <<"}">>

\* the memories the model service proposes: plain, to be trimmed, and with
\* a line break inside
Memories == {<<"a">>, <<" ", "b", "\n">>, <<"c", "\n", "d">>}

NovelResponses == {memoryResponse(quote(m)) : m \in Memories}

\* memory null, absent, empty, and blank
NonNovelResponses ==
    {memoryResponse(<<"n", "u", "l", "l">>),
     <<"{", "}">>,
     memoryResponse(quote(<<>>)),
     memoryResponse(quote(<<" ", "\n">>))}

\* text that is not JSON, and JSON that is not an object
NotJSONResponses == {<<"o", "o", "p", "s">>, <<"{", "\"", "m", "e", "m">>}
NotObjectResponses ==
    {<<"n", "u", "l", "l">>, <<"4", "2">>, <<"t", "r", "u", "e">>, quote(<<"a">>)}

\* a memory that is not a string
NotStringResponses ==
    {memoryResponse(<<"4", "2">>), memoryResponse(<<"t", "r", "u", "e">>),
     memoryResponse(<<"[", "\"", "a", "\"", "]">>), memoryResponse(<<"{", "}">>)}

\* the selections the model service returns: one stored content, two in
\* the reverse order, one repeated, one that is stored nowhere, none
Selections == {<<<<"a">>>>, << <<"b">>, <<"a">> >>, << <<"a">>, <<"a">> >>,
               <<<<"z">>>>, <<>>}

selectionValue(sel) == JArr([i \in 1..Len(sel) |-> JStr(sel[i])])

\* ["a", "b"]: the JSON text of a selection, as a model writes it
selectionResponse(sel) ==
    <<"[">> \o join([i \in 1..Len(sel) |-> quote(sel[i])], <<",", " ">>) \o <<"]">>

SelectionResponses == {selectionResponse(sel) : sel \in Selections}

\* arrays with an element that is not a string
NotStringArrayResponses == {<<"[", "1", "]">>, <<"[", "\"", "a", "\"", ",", "n", "u", "l", "l", "]">>}

Responses ==
    NovelResponses \cup NonNovelResponses \cup NotJSONResponses
    \cup NotObjectResponses \cup NotStringResponses
    \cup SelectionResponses \cup NotStringArrayResponses

\* the candidates given to validateEntry: objects with the three fields of
\* an entry, each a JSON value
candidate(c, t, d) ==
    JObj(<<[k |-> ContentKey, v |-> c], [k |-> TagsKey, v |-> t],
           [k |-> CreatedAtKey, v |-> d]>>)

\* a candidate without one of its fields
withoutKey(val, key) ==
    JObj(SelectSeq(val.m, LAMBDA f : f.k # key))

\* a candidate with one more field
withExtra(val) ==
    JObj(Append(val.m, [k |-> <<"i", "d">>, v |-> JNum(7)]))

NoTags == JArr(<<>>)

\* date-times in UTC, as toISOString writes them, with and without a
\* fraction
UTCDateTimes == {EntryA.createdAt, EntryC.createdAt}

\* an ISO 8601 date-time with an offset from UTC
OffsetDateTimes ==
    {<<"2", "0", "2", "5", "-", "0", "4", "-", "1", "9", "T",
       "0", "2", ":", "0", "0", ":", "0", "0", "+", "0", "2", ":", "0", "0">>}

\* candidates with the three fields of the right types
EntryCandidates(dates) ==
    {candidate(JStr(c), t, JStr(d)) :
        c \in {<<>>, <<"a">>},
        t \in {NoTags, JArr(<<JStr(<<"t">>), JStr(<<>>)>>)},
        d \in dates}

\* entries with a field more
ExtraCandidates == {withExtra(entryValue(e)) : e \in Entries}

\* entries with a field less
MissingCandidates ==
    {withoutKey(entryValue(EntryC), key) : key \in {ContentKey, TagsKey, CreatedAtKey}}

\* entries with a field of another type, or a createdAt that is no date
WrongTypeCandidates ==
    {candidate(JNum(42), JStr(<<"o", "o", "p", "s">>), JStr(EntryA.createdAt)),
     candidate(JNum(42), NoTags, JStr(EntryA.createdAt)),
     candidate(JNull, NoTags, JStr(EntryA.createdAt)),
     candidate(JStr(<<"a">>), JStr(<<"t">>), JStr(EntryA.createdAt)),
     candidate(JStr(<<"a">>), JArr(<<JStr(<<"t">>), JNum(1)>>), JStr(EntryA.createdAt)),
     candidate(JStr(<<"a">>), NoTags, JNum(0)),
     candidate(JStr(<<"a">>), NoTags, JStr(<<"s", "o", "o", "n">>)),
     candidate(JStr(<<"a">>), NoTags, JStr(<<>>))}

\* values that are not objects
NotObjectCandidates == {JNull, JNum(42), JStr(<<"a">>), JArr(<<>>)}

Candidates ==
    EntryCandidates(UTCDateTimes \cup OffsetDateTimes) \cup ExtraCandidates
        \cup MissingCandidates \cup WrongTypeCandidates \cup NotObjectCandidates

\* the files found at the path when the journal is constructed: none, an
\* empty one, well-formed ones, corrupt ones, and ones with blank lines
\* (between two entries; before the first entry and after the last)
InitialFiles ==
    {NoFile,
     FileOf(<<>>),
     FileOf(entryLine(EntryA)),
     FileOf(entryLine(EntryA) \o entryLine(EntryB)),
     FileOf(<<"o", "o", "p", "s">>),
     FileOf(<<"{", "\"", "c", "o", "n", "t", "e", "n", "t", "\"", ":", "4", "2", "}", "\n">>),
     FileOf(entryLine(EntryA) \o <<"\n">> \o entryLine(EntryB)),
     FileOf(<<"\n">> \o entryLine(EntryA) \o <<"\n">>)}

(***************************************************************************)
(* The state.                                                              *)
(***************************************************************************)
\* the callers; each has its own Journal on the same path
Procs == {1, 2}
\* the callers of the sequential specification
SeqProcs == {1}

\* the model identifier each Journal is constructed with
JournalModel == [p \in Procs |-> IF p = 1 THEN "gpt-4.1-nano" ELSE "custom-model"]

VARIABLES
    file,       \* the file at the journal's path
    file0,      \* the file as it was at construction
    written,    \* the entries whose appendFile succeeded, in order
    now,        \* the clock, in milliseconds
    pc,         \* where each caller is in its call
    call,       \* the call each caller is in
    last,       \* the last call each caller completed
    nops,       \* the number of calls made so far
    budget      \* the number of calls the callers make at most

vars == <<file, file0, written, now, pc, call, last, nops, budget>>

NoCall ==
    [op |-> "none", interaction |-> <<>>, entry |-> NoEntry,
     before |-> NoFile, after |-> NoFile,
     readStatus |-> "none", readText |-> <<>>, loaded |-> <<>>,
     requests |-> <<>>, responded |-> FALSE, raw |-> <<>>,
     writes |-> 0, writeFailed |-> FALSE, candidate |-> JNull, k |-> 0,
     status |-> "none", error |-> "none", value |-> JNull]

Init ==
    /\ file \in InitialFiles
    /\ file0 = file
    /\ written = <<>>
    /\ now = 0
    /\ pc = [p \in Procs |-> "idle"]
    /\ call = [p \in Procs |-> NoCall]
    /\ last = [p \in Procs |-> NoCall]
    /\ nops = 0
    /\ budget = MaxOps

\* caller p starts the call c
Begin(p, c, at) ==
    /\ pc[p] = "idle"
    /\ nops < budget
    /\ nops' = nops + 1
    /\ pc' = [pc EXCEPT ![p] = at]
    /\ call' = [call EXCEPT ![p] = [c EXCEPT !.before = file, !.status = "running"]]
    /\ UNCHANGED <<file, file0, written, now, last, budget>>

\* the call of p ends as c, resolved (ok) or rejected with an error, and
\* leaves the file f
Return(p, c, error, f) ==
    /\ pc' = [pc EXCEPT ![p] = "idle"]
    /\ call' = [call EXCEPT ![p] = NoCall]
    /\ last' = [last EXCEPT ![p] =
                   [c EXCEPT !.after = f,
                             !.status = IF error = "none" THEN "ok" ELSE "error",
                             !.error = error]]

\* the call of p goes on as c at the next await
Continue(p, c, at) ==
    /\ pc' = [pc EXCEPT ![p] = at]
    /\ call' = [call EXCEPT ![p] = c]
    /\ UNCHANGED last

\* the call c after its load has read r and returned l
Loaded(c, r, l) ==
    [c EXCEPT !.readStatus = r.status, !.readText = r.text, !.loaded = l.entries]

Tick ==
    /\ now < MaxClock
    /\ now' = now + 1
    /\ UNCHANGED <<file, file0, written, pc, call, last, nops, budget>>

(***************************************************************************)
(* load()                                                                  *)
(***************************************************************************)
CallLoad(p) == Begin(p, [NoCall EXCEPT !.op = "load"], "load_read")

LoadDone(p) ==
    /\ pc[p] = "load_read"
    /\ \E fault \in BOOLEAN : \E r \in {readFile(file, fault)} : \E l \in {load(r)} :
          /\ file' = r.fs
          /\ Return(p, Loaded(call[p], r, l), IF l.threw THEN "LoadError" ELSE "none", r.fs)
    /\ UNCHANGED <<file0, written, now, nops, budget>>

(***************************************************************************)
(* append(entry)                                                           *)
(***************************************************************************)
CallAppend(p) ==
    \E e \in Entries : Begin(p, [NoCall EXCEPT !.op = "append", !.entry = e], "append_write")

\* a write of the whole file: the text as it was when the call began, and
\* the new line
Written_stale(p) ==
    \E fault \in BOOLEAN :
    \E w \in {IF fault THEN [status |-> "EACCES", fs |-> file]
               ELSE [status |-> "ok",
                     fs |-> FileOf(call[p].before.text \o entryLine(call[p].entry))]} :
        /\ file' = w.fs
        /\ written' = IF w.status = "ok" THEN Append(written, call[p].entry) ELSE written
        /\ Return(p, [call[p] EXCEPT !.writes = @ + 1, !.writeFailed = fault],
                  IF w.status = "ok" THEN "none" ELSE "WriteError", w.fs)

\* the appendFile of append, or of the append that store calls, completes
Written(p) ==
    \E fault \in BOOLEAN : \E w \in {append(file, call[p].entry, fault)} :
        /\ file' = w.fs
        /\ written' = IF w.status = "ok" THEN Append(written, call[p].entry) ELSE written
        /\ Return(p, [call[p] EXCEPT !.writes = @ + 1, !.writeFailed = fault],
                  IF w.status = "ok" THEN "none" ELSE "WriteError", w.fs)

\* an append that writes the whole file again: the text as it was when the
\* call began, and the new line
AppendDone_rewrites(p) ==
    /\ pc[p] = "append_write"
    /\ Written_stale(p)
    /\ UNCHANGED <<file0, now, nops, budget>>

AppendDone(p) ==
    /\ pc[p] = "append_write"
    /\ Written(p)
    /\ UNCHANGED <<file0, now, nops, budget>>

(***************************************************************************)
(* validateEntry(entry)                                                    *)
(***************************************************************************)
\* Journal.validateEntry: the entry returned, or the ZodError thrown
validateEntry(entry) == journalEntrySchema(entry)

\* validateEntry is synchronous: the call starts and ends in one step
CallValidateEntry(p) ==
    /\ pc[p] = "idle"
    /\ nops < budget
    /\ nops' = nops + 1
    /\ \E cand \in Candidates : \E r \in {validateEntry(cand)} :
          last' = [last EXCEPT ![p] =
                      [NoCall EXCEPT !.op = "validateEntry", !.candidate = cand,
                                     !.before = file, !.after = file,
                                     !.entry = r.v,
                                     !.status = IF r.ok THEN "ok" ELSE "error",
                                     !.error = IF r.ok THEN "none" ELSE "ZodError"]]
    /\ UNCHANGED <<file, file0, written, now, pc, call, budget>>

(***************************************************************************)
(* store(interaction)                                                      *)
(***************************************************************************)
CallStore(p) ==
    \E x \in Interactions :
        Begin(p, [NoCall EXCEPT !.op = "store", !.interaction = x], "store_read")

\* the load of store completes and the request is sent
StoreLoaded(p) ==
    /\ pc[p] = "store_read"
    /\ \E fault \in BOOLEAN : \E r \in {readFile(file, fault)} : \E l \in {load(r)} :
       \E c \in {Loaded(call[p], r, l)} :
          /\ file' = r.fs
          /\ IF l.threw
             THEN Return(p, c, "LoadError", r.fs)
             ELSE Continue(p, [c EXCEPT !.requests =
                                  Append(@, storeRequest(l.entries, c.interaction,
                                                         JournalModel[p]))],
                           "store_model")
    /\ UNCHANGED <<file0, written, now, nops, budget>>

\* a store that sends its request again when it is rejected
StoreRejected_retries(p) ==
    /\ pc[p] = "store_model"
    /\ Continue(p, [call[p] EXCEPT !.requests = Append(@, @[1])], "store_model")
    /\ UNCHANGED <<file, file0, written, now, nops, budget>>

\* the request of store is rejected (or cancelled)
StoreRejected(p) ==
    /\ pc[p] = "store_model"
    /\ Return(p, call[p], "RequestError", file)
    /\ UNCHANGED <<file, file0, written, now, nops, budget>>

\* the model service answers the request of store with one of responses
StoreAnswered(p, responses) ==
    /\ pc[p] = "store_model"
    /\ \E raw \in responses : \E d \in {storeResponse(raw, now)} :
       \E c \in {[call[p] EXCEPT !.responded = TRUE, !.raw = raw]} :
          IF d.threw THEN Return(p, c, d.error, file)
          ELSE IF d.append
          THEN Continue(p, [c EXCEPT !.entry = d.entry], "store_write")
          ELSE Return(p, c, "none", file)
    /\ UNCHANGED <<file, file0, written, now, nops, budget>>

StoreResponded(p) == StoreAnswered(p, Responses)

StoreAppended(p) ==
    /\ pc[p] = "store_write"
    /\ Written(p)
    /\ UNCHANGED <<file0, now, nops, budget>>

(***************************************************************************)
(* retrieve(interaction)                                                   *)
(***************************************************************************)
CallRetrieve(p) ==
    \E x \in Interactions :
        Begin(p, [NoCall EXCEPT !.op = "retrieve", !.interaction = x], "retrieve_read")

\* the load of retrieve completes: [] is returned, or the request is sent
RetrieveLoaded(p) ==
    /\ pc[p] = "retrieve_read"
    /\ \E fault \in BOOLEAN : \E r \in {readFile(file, fault)} : \E l \in {load(r)} :
       \E c \in {Loaded(call[p], r, l)} :
          /\ file' = r.fs
          /\ IF l.threw
             THEN Return(p, c, "LoadError", r.fs)
             ELSE IF retrieveReturnsEarly(l.entries)
             THEN Return(p, [c EXCEPT !.value = JArr(<<>>)], "none", r.fs)
             ELSE Continue(p, [c EXCEPT !.requests =
                                  Append(@, retrieveRequest(l.entries, c.interaction,
                                                            JournalModel[p]))],
                           "retrieve_model")
    /\ UNCHANGED <<file0, written, now, nops, budget>>

RetrieveRejected(p) ==
    /\ pc[p] = "retrieve_model"
    /\ Return(p, call[p], "RequestError", file)
    /\ UNCHANGED <<file, file0, written, now, nops, budget>>

\* a retrieve that writes the answer it got at the end of the journal file
RetrieveResponded_recorded(p) ==
    /\ pc[p] = "retrieve_model"
    /\ \E raw \in Responses : \E d \in {retrieveResponse(call[p].loaded, raw)} :
       \E f \in {FileOf(file.text \o raw \o <<"\n">>)} :
          /\ file' = f
          /\ Return(p, [call[p] EXCEPT !.responded = TRUE, !.raw = raw,
                                       !.value = d.value],
                    d.error, f)
    /\ UNCHANGED <<file0, written, now, nops, budget>>

RetrieveResponded(p) ==
    /\ pc[p] = "retrieve_model"
    /\ \E raw \in Responses : \E d \in {retrieveResponse(call[p].loaded, raw)} :
          Return(p, [call[p] EXCEPT !.responded = TRUE, !.raw = raw, !.value = d.value],
                 d.error, file)
    /\ UNCHANGED <<file, file0, written, now, nops, budget>>

(***************************************************************************)
(* The earlier retrieve(interaction, k)                                    *)
(***************************************************************************)
CallRetrieveK(p) ==
    \E x \in Interactions : \E k \in Ks :
        Begin(p, [NoCall EXCEPT !.op = "retrieveK", !.interaction = x, !.k = k],
              "retrieveK_read")

RetrieveKLoaded(p) ==
    /\ pc[p] = "retrieveK_read"
    /\ \E fault \in BOOLEAN : \E r \in {readFile(file, fault)} : \E l \in {load(r)} :
       \E c \in {Loaded(call[p], r, l)} :
          /\ file' = r.fs
          /\ IF l.threw
             THEN Return(p, c, "LoadError", r.fs)
             ELSE IF Len(l.entries) = 0
             THEN Return(p, [c EXCEPT !.value = JArr(<<>>)], "none", r.fs)
             ELSE Continue(p, [c EXCEPT !.requests =
                                  Append(@, retrieveRequestK(l.entries, c.interaction,
                                                             c.k))],
                           "retrieveK_model")
    /\ UNCHANGED <<file0, written, now, nops, budget>>

RetrieveKRejected(p) ==
    /\ pc[p] = "retrieveK_model"
    /\ Return(p, call[p], "RequestError", file)
    /\ UNCHANGED <<file, file0, written, now, nops, budget>>

RetrieveKResponded(p) ==
    /\ pc[p] = "retrieveK_model"
    /\ \E raw \in Responses :
       \E d \in {retrieveFiltered(call[p].loaded, JSONparse(raw), call[p].k)} :
          Return(p, [call[p] EXCEPT !.responded = TRUE, !.raw = raw, !.value = d.value],
                 d.error, file)
    /\ UNCHANGED <<file, file0, written, now, nops, budget>>

(***************************************************************************)
(* Specifications: one caller at a time, and two callers interleaved.      *)
(***************************************************************************)
Step(p) ==
    \/ CallLoad(p)
    \/ LoadDone(p)
    \/ CallAppend(p)
    \/ AppendDone(p)
    \/ CallValidateEntry(p)
    \/ CallStore(p)
    \/ StoreLoaded(p)
    \/ StoreRejected(p)
    \/ StoreResponded(p)
    \/ StoreAppended(p)
    \/ CallRetrieve(p)
    \/ RetrieveLoaded(p)
    \/ RetrieveRejected(p)
    \/ RetrieveResponded(p)

Next == Tick \/ \E p \in SeqProcs : Step(p)

Spec == Init /\ [][Next]_vars

\* a fresh journal that one caller only appends to and loads
InitLog ==
    /\ file = NoFile
    /\ file0 = file
    /\ written = <<>>
    /\ now = 0
    /\ pc = [p \in Procs |-> "idle"]
    /\ call = [p \in Procs |-> NoCall]
    /\ last = [p \in Procs |-> NoCall]
    /\ nops = 0
    /\ budget = MaxLogOps

NextLog ==
    \E p \in SeqProcs :
        \/ CallLoad(p)
        \/ LoadDone(p)
        \/ CallAppend(p)
        \/ AppendDone(p)

SpecLog == InitLog /\ [][NextLog]_vars

\* two callers, each with its own Journal on the same path, store and
\* append at the same time: their steps interleave at every await
ConcFiles == {NoFile, FileOf(entryLine(EntryA))}

\* the answers to their requests: a memory, another one, and none
ConcResponses ==
    {memoryResponse(quote(<<"a">>)), memoryResponse(quote(<<"b">>)),
     memoryResponse(<<"n", "u", "l", "l">>)}

InitConc ==
    /\ file \in ConcFiles
    /\ file0 = file
    /\ written = <<>>
    /\ now = 0
    /\ pc = [p \in Procs |-> "idle"]
    /\ call = [p \in Procs |-> NoCall]
    /\ last = [p \in Procs |-> NoCall]
    /\ nops = 0
    /\ budget = MaxConcOps

StepConc(p) ==
    \/ CallAppend(p)
    \/ AppendDone(p)
    \/ CallStore(p)
    \/ StoreLoaded(p)
    \/ StoreAnswered(p, ConcResponses)
    \/ StoreAppended(p)

NextConc == Tick \/ \E p \in Procs : StepConc(p)

SpecConc == InitConc /\ [][NextConc]_vars

\* one caller of the earlier journal: append and retrieve(interaction, k)
NextK ==
    \E p \in SeqProcs :
        \/ CallAppend(p)
        \/ AppendDone(p)
        \/ CallRetrieveK(p)
        \/ RetrieveKLoaded(p)
        \/ RetrieveKRejected(p)
        \/ RetrieveKResponded(p)

SpecK == Init /\ [][NextK]_vars

(***************************************************************************)
(* Properties.                                                             *)
(***************************************************************************)
IsPrefix(a, b) == Len(a) <= Len(b) /\ SubSeq(b, 1, Len(a)) = a

\* the text a call added at the end of the file
appendedText(c) == SubSeq(c.after.text, Len(c.before.text) + 1, Len(c.after.text))

\* the lines of a journal file: the text split on newlines, less the one
\* empty line after the final newline
fileLines(txt) ==
    IF txt # <<>> /\ txt[Len(txt)] = "\n"
    THEN split(SubSeq(txt, 1, Len(txt) - 1), "\n")
    ELSE split(txt, "\n")

\* a line is an entry when it is JSON that passes the schema
isEntryLine(line) == parsedLine(JSONparse(line)).ok
entryOfLine(line) == parsedLine(JSONparse(line)).v

\* some line of the text is not an entry
isCorrupt(txt) == \E i \in 1..Len(fileLines(txt)) : ~isEntryLine(fileLines(txt)[i])

\* C1: in a journal whose file did not exist, append(e) creates the file,
\* and a load() after that one append returns exactly <<e>>.
C1_RoundTrip ==
    \A p \in Procs :
        /\ (last[p].op = "append" /\ last[p].status = "ok" /\ ~last[p].before.exists)
              => last[p].after.exists
        /\ (/\ last[p].op = "load"
            /\ last[p].readStatus = "ok"
            /\ ~file0.exists
            /\ Len(written) = 1)
              => /\ last[p].status = "ok"
                 /\ last[p].loaded = written

C1_Witness ==
    \E p \in Procs :
        /\ last[p].op = "load"
        /\ ~file0.exists
        /\ written = <<EntryC>>
        /\ last[p].loaded = <<EntryC>>

\* C2: every step leaves the text the file had as a prefix of the text it
\* has, and never removes the file.
C2_AppendOnly ==
    [][IsPrefix(file.text, file'.text) /\ (file.exists => file'.exists)]_vars

C2_Witness ==
    /\ file0.text # <<>>
    /\ file.text # file0.text
    /\ IsPrefix(file0.text, file.text)
    /\ written # <<>>

\* C3: load() of a file that has a line that is not JSON, or not an entry
\* of the schema, is rejected with an error.
C3_LoadRejectsCorruptFile ==
    \A p \in Procs :
        (last[p].op = "load" /\ last[p].readStatus = "ok" /\ isCorrupt(last[p].readText))
            => last[p].status = "error"

\* C4: load() where no file exists returns the empty sequence without an
\* error and leaves the file absent.
C4_LoadMissingFile ==
    \A p \in Procs :
        (last[p].op = "load" /\ ~last[p].before.exists)
            => /\ last[p].status = "ok"
               /\ last[p].loaded = <<>>
               /\ ~last[p].after.exists

C4_Witness ==
    \E p \in Procs :
        /\ last[p].op = "load"
        /\ last[p].readStatus = "ENOENT"
        /\ last[p].status = "ok"
        /\ ~file.exists

\* the text appended by the call c is one line, an entry with the memory m
\* trimmed as content, no tags and a date-time as createdAt
appendedMemory(c, m) ==
    /\ c.after.exists
    /\ IsPrefix(c.before.text, c.after.text)
    /\ Len(fileLines(appendedText(c))) = 1
    /\ appendedText(c)[Len(appendedText(c))] = "\n"
    /\ isEntryLine(fileLines(appendedText(c))[1])
    /\ entryOfLine(fileLines(appendedText(c))[1]).content = trim(m)
    /\ entryOfLine(fileLines(appendedText(c))[1]).tags = <<>>
    /\ isDatetime(entryOfLine(fileLines(appendedText(c))[1]).createdAt)

\* C5: when the model answers store() with an object whose memory is a
\* string that is not blank, store() calls appendFile once, and (the write
\* succeeding) the file is the file before followed by one line: an entry
\* with the trimmed memory as content, no tags and a valid createdAt.
C5_StoreNovel ==
    \A p \in Procs : \A m \in Memories :
        (last[p].op = "store" /\ last[p].responded /\ last[p].raw = memoryResponse(quote(m)))
            => /\ last[p].writes = 1
               /\ last[p].status = "error" => last[p].error = "WriteError"
               /\ last[p].status = "ok" => appendedMemory(last[p], m)

C5_Witness ==
    \E p \in Procs :
        /\ last[p].op = "store"
        /\ last[p].raw = memoryResponse(quote(<<" ", "b", "\n">>))
        /\ last[p].status = "ok"
        /\ last[p].before.text # <<>>
        /\ last[p].entry.content = <<"b">>

\* C6: when the memory of the answer is null, absent, empty or blank,
\* store() ends without an error, calls no appendFile and leaves the file
\* as it was.
C6_StoreNotNovel ==
    \A p \in Procs :
        (last[p].op = "store" /\ last[p].responded /\ last[p].raw \in NonNovelResponses)
            => /\ last[p].status = "ok"
               /\ last[p].writes = 0
               /\ last[p].after = last[p].before

C6_Witness ==
    \E p \in Procs :
        /\ last[p].op = "store"
        /\ last[p].raw = memoryResponse(quote(<<" ", "\n">>))
        /\ last[p].status = "ok"
        /\ last[p].before.exists

\* C7: a store() that fails before its append (no appendFile was called)
\* leaves the file as it was before the call.
C7_FailedStoreNoEffect ==
    \A p \in Procs :
        (last[p].op = "store" /\ last[p].status = "error" /\ last[p].writes = 0)
            => last[p].after = last[p].before

C7_Witness ==
    \E p \in Procs :
        /\ last[p].op = "store"
        /\ last[p].error \in {"RequestError", "SyntaxError", "TypeError"}
        /\ last[p].before.exists
        /\ last[p].after = last[p].before

\* C8: when the answer to store() is not JSON, or is JSON that is not an
\* object, store() ends with an error, after one request only.
C8_StoreRejectsMalformed ==
    \A p \in Procs :
        (/\ last[p].op = "store"
         /\ last[p].responded
         /\ last[p].raw \in NotJSONResponses \cup NotObjectResponses)
            => /\ last[p].status = "error"
               /\ Len(last[p].requests) = 1

\* C9: retrieve() on a journal with no entries (no file, or an empty one)
\* returns the empty array and sends no request.
C9_RetrieveEmpty ==
    \A p \in Procs :
        (last[p].op = "retrieve" /\ (~last[p].before.exists \/ last[p].before.text = <<>>))
            => /\ last[p].status = "ok"
               /\ last[p].value = JArr(<<>>)
               /\ last[p].requests = <<>>

C9_Witness ==
    \E p \in Procs :
        /\ last[p].op = "retrieve"
        /\ last[p].before = FileOf(<<>>)
        /\ last[p].status = "ok"
        /\ last[p].requests = <<>>

NotSelectionResponses ==
    NotJSONResponses \cup NotObjectResponses \cup NovelResponses
        \cup NonNovelResponses \cup NotStringResponses \cup NotStringArrayResponses

\* C11: when the answer to retrieve() is not a JSON array of strings (text
\* that is not JSON, an object, null, a number, an array with an element
\* that is not a string), retrieve() ends with an error and returns no value.
C11_RetrieveRejectsMalformed ==
    \A p \in Procs :
        (/\ last[p].op = "retrieve"
         /\ last[p].responded
         /\ last[p].raw \in NotSelectionResponses)
            => last[p].status = "error"

\* C12: in a journal whose file did not exist at first, after any calls of
\* append (valid entries) and store (any response), the file, once there,
\* is one line for each entry written, in order: the serialised entry, which
\* passes the schema, and one newline after it, with no partial line at the
\* end; and a load() whose read succeeds returns these entries.
C12_FileFormat ==
    (~file0.exists /\ file.exists) =>
        /\ file.text # <<>>
        /\ file.text[Len(file.text)] = "\n"
        /\ Len(fileLines(file.text)) = Len(written)
        /\ \A i \in 1..Len(written) :
              /\ fileLines(file.text)[i] = JSONstringify(entryValue(written[i]))
              /\ isEntryLine(fileLines(file.text)[i])
        /\ load(readFile(file, FALSE)).entries = written

C12_Witness ==
    /\ ~file0.exists
    /\ Len(written) = 2
    /\ written[1].content = <<"c", "\n", "d">>
    /\ \E p \in Procs : last[p].op = "store" /\ last[p].status = "ok"
    /\ Len(fileLines(file.text)) = 2

\* C13: in a fresh journal, a load() whose read does not fail returns the
\* entries appended so far, in the order of their appends.
C13_OrderPreserved ==
    \A p \in Procs :
        (/\ ~file0.exists
         /\ last[p].op = "load"
         /\ last[p].readStatus \in {"ok", "ENOENT"})
            => /\ last[p].status = "ok"
               /\ last[p].loaded = written

C13_Witness ==
    \E p \in Procs :
        /\ last[p].op = "load"
        /\ written = <<EntryC, EntryA, EntryA>>
        /\ last[p].loaded = <<EntryC, EntryA, EntryA>>

\* C14: when the readFile of load() fails for another reason than a missing
\* file (permission denied), the call (load, store or retrieve) is rejected
\* with that error instead of going on with an empty journal.
C14_ReadFailurePropagates ==
    \A p \in Procs :
        (/\ last[p].op \in {"load", "store", "retrieve"}
         /\ last[p].readStatus = "EACCES")
            => /\ last[p].status = "error"
               /\ last[p].error = "LoadError"

\* C15: when the appendFile of append() fails, the call (append, or the
\* store that called it) is rejected with the write error; appendFile was
\* called once, not again, and the file is as it was.
C15_WriteFailureSurfaces ==
    \A p \in Procs :
        (last[p].op \in {"append", "store"} /\ last[p].writeFailed)
            => /\ last[p].status = "error"
               /\ last[p].error = "WriteError"
               /\ last[p].writes = 1
               /\ last[p].after = last[p].before

C15_Witness ==
    \E p \in Procs :
        /\ last[p].op = "store"
        /\ last[p].writeFailed
        /\ last[p].error = "WriteError"
        /\ last[p].before.exists

\* the outcome of validateEntry for the candidates in accepted (with the
\* three fields only), in extra (with a field more) and in rejected
validatesAs(accepted, extra, rejected) ==
    \A p \in Procs :
        last[p].op = "validateEntry" =>
            /\ last[p].candidate \in accepted =>
                  /\ last[p].status = "ok"
                  /\ entryValue(last[p].entry) = last[p].candidate
            /\ last[p].candidate \in extra =>
                  /\ last[p].status = "ok"
                  /\ withExtra(entryValue(last[p].entry)) = last[p].candidate
            /\ last[p].candidate \in rejected =>
                  /\ last[p].status = "error"
                  /\ last[p].error = "ZodError"

\* C16 as stated: validateEntry accepts a candidate exactly when content is
\* a string, tags an array of strings and createdAt a string that is a
\* date-time (with Z or with an offset); it returns an accepted entry of
\* three fields unchanged, accepts an entry with a field more, and throws
\* when a field is missing or of another type.
C16_ValidateEntry ==
    validatesAs(EntryCandidates(UTCDateTimes \cup OffsetDateTimes),
                ExtraCandidates,
                MissingCandidates \cup WrongTypeCandidates \cup NotObjectCandidates)

\* C16, amended: validateEntry accepts a candidate exactly when content is
\* a string, tags an array of strings and createdAt a string that is a
\* date-time in UTC (ending in Z); a date-time with an offset is rejected
\* like a missing field, a field of another type or a value that is no
\* object; an accepted entry of three fields is returned unchanged, and an
\* entry with a field more is accepted.
C16_ValidateEntryUTC ==
    validatesAs(EntryCandidates(UTCDateTimes),
                ExtraCandidates,
                EntryCandidates(OffsetDateTimes) \cup MissingCandidates
                    \cup WrongTypeCandidates \cup NotObjectCandidates)

C16_Witness ==
    \E p \in Procs :
        /\ last[p].op = "validateEntry"
        /\ last[p].candidate = withExtra(entryValue(EntryC))
        /\ last[p].status = "ok"
        /\ last[p].entry = EntryC

\* the request r is the one the call c of caller p is to send
isRequestOf(r, c, p) ==
    /\ r.temperature = 0
    /\ r.model = JournalModel[p]
    /\ Len(r.messages) = 2
    /\ r.messages[1].role = "system"
    /\ r.messages[2].role = "user"
    /\ c.op = "store" =>
          /\ r.messages[1].content = STORE_SYSTEM_PROMPT
          /\ r.messages[2].content = makeStorePrompt(c.loaded, c.interaction)
    /\ c.op = "retrieve" =>
          /\ r.messages[1].content = RETRIEVE_SYSTEM_PROMPT
          /\ r.messages[2].content = makeRetrievePrompt(c.loaded, c.interaction)

\* C17: every request of store() and of retrieve() has temperature 0, the
\* model the Journal was constructed with, and two messages: the system
\* instruction, then one user message with the prompt made from the entries
\* loaded and the interaction.
C17_RequestShape ==
    \A p \in Procs : \A c \in {call[p], last[p]} :
        /\ c.op \notin {"store", "retrieve"} => c.requests = <<>>
        /\ \A i \in 1..Len(c.requests) : isRequestOf(c.requests[i], c, p)

C17_Witness ==
    \E p \in Procs :
        /\ call[p].op = "retrieve"
        /\ Len(call[p].loaded) = 2
        /\ Len(call[p].requests) = 1
        /\ last[p].op = "store"
        /\ Len(last[p].requests) = 1

\* C18: when the journal file read is corrupt, store() is rejected with the
\* load error before any request and without an append, and retrieve() is
\* rejected with the load error instead of returning an empty result.
C18_CorruptFileFailsCalls ==
    \A p \in Procs :
        (/\ last[p].op \in {"store", "retrieve"}
         /\ last[p].readStatus = "ok"
         /\ isCorrupt(last[p].readText))
            => /\ last[p].status = "error"
               /\ last[p].error = "LoadError"
               /\ last[p].requests = <<>>
               /\ last[p].writes = 0

\* the steps of the call c are in order: a request only after the load, a
\* response only to a request, an append only after the response, and no
\* more than one request and one append
inOrder(c) ==
    /\ Len(c.requests) <= 1
    /\ c.writes <= 1
    /\ c.requests # <<>> => c.readStatus # "none"
    /\ c.responded => Len(c.requests) = 1
    /\ c.writes = 1 => c.responded
    /\ c.op = "retrieve" => c.writes = 0

\* C19: in every call of store() and of retrieve() the request is sent only
\* after the load has completed, and store() calls append only after the
\* response has come and was parsed (while the write is awaited the entry
\* is the one made from the response); a call sends at most one request,
\* store() appends at most once and retrieve() never.
C19_StepOrder ==
    \A p \in Procs :
        /\ \A c \in {call[p], last[p]} :
              c.op \in {"store", "retrieve"} => inOrder(c)
        /\ pc[p] \in {"store_model", "retrieve_model"} =>
              /\ call[p].readStatus # "none"
              /\ Len(call[p].requests) = 1
              /\ ~call[p].responded
        /\ pc[p] = "store_write" =>
              /\ call[p].responded
              /\ call[p].writes = 0
              /\ \E t \in 0..MaxClock :
                    /\ storeResponse(call[p].raw, t).append
                    /\ storeResponse(call[p].raw, t).entry = call[p].entry

C19_Witness ==
    \E p \in Procs :
        /\ last[p].op = "store"
        /\ last[p].status = "ok"
        /\ last[p].writes = 1
        /\ Len(last[p].requests) = 1
        /\ last[p].readStatus = "ok"
        /\ pc[p] = "retrieve_model"

\* the entries of a text in which every line is an entry; none for no text
parseLinesOk(txt) ==
    IF txt = <<>> THEN <<>>
    ELSE [i \in 1..Len(fileLines(txt)) |-> entryOfLine(fileLines(txt)[i])]

\* the callers p and q have both stored a new entry after reading the same
\* text: each loaded before the other appended
storedAtOnce(p, q) ==
    /\ p # q
    /\ \A r \in {p, q} :
          /\ last[r].op = "store"
          /\ last[r].status = "ok"
          /\ last[r].writes = 1
    /\ last[p].readStatus = last[q].readStatus
    /\ last[p].readStatus \in {"ok", "ENOENT"}
    /\ last[p].readText = last[q].readText

\* C20: two store() calls on the same path can both load (the same text,
\* or no file) before either appends; when both get a memory, both append:
\* the file then holds the text both read and the two new lines after it,
\* in the order of the writes, and each prompt was made from the entries of
\* the text read only, without the entry of the other call.
C20_ConcurrentStores ==
    \A p, q \in Procs :
        storedAtOnce(p, q) =>
            /\ Len(written) >= 2
            /\ \/ IsPrefix(last[p].readText \o entryLine(last[p].entry)
                              \o entryLine(last[q].entry), file.text)
               \/ IsPrefix(last[p].readText \o entryLine(last[q].entry)
                              \o entryLine(last[p].entry), file.text)
            /\ \A r \in {p, q} :
                  /\ last[r].loaded = parseLinesOk(last[r].readText)
                  /\ last[r].requests =
                        <<storeRequest(last[r].loaded, last[r].interaction,
                                       JournalModel[r])>>

\* both callers found no file, both got the memory a, and the file has two
\* entries with that content
C20_Witness ==
    /\ storedAtOnce(1, 2)
    /\ ~file0.exists
    /\ last[1].loaded = <<>> /\ last[2].loaded = <<>>
    /\ last[1].entry.content = <<"a">> /\ last[2].entry.content = <<"a">>
    /\ Len(fileLines(file.text)) = 2
    /\ \A i \in 1..2 : entryOfLine(fileLines(file.text)[i]).content = <<"a">>

\* the entries in a text: its lines that are entries, in the order of the
\* file
entriesIn(txt) ==
    LET lines == SelectSeq(fileLines(txt), isEntryLine)
    IN  [i \in 1..Len(lines) |-> entryOfLine(lines[i])]

\* C21: the prompt of every request of store() and of retrieve() is made
\* from the entries in the file as it is when the call loads it (one caller:
\* as it is when the call begins), all of them and in the order of the
\* file; entries appended by earlier calls are among them.
C21_PromptListsFile ==
    \A p \in SeqProcs : \A c \in {call[p], last[p]} :
        (c.op \in {"store", "retrieve"} /\ c.requests # <<>>) =>
            c.requests[1].messages[2].content =
                IF c.op = "store"
                THEN makeStorePrompt(entriesIn(c.before.text), c.interaction)
                ELSE makeRetrievePrompt(entriesIn(c.before.text), c.interaction)

\* some line of the text, other than the empty one after the final newline,
\* is empty or blank
hasBlankLine(txt) ==
    \E i \in 1..Len(fileLines(txt)) : trim(fileLines(txt)[i]) = <<>>

\* C22: load() leaves out only the one empty line after the final newline:
\* when the text read has another empty or blank line (between entries,
\* before the first, a second one at the end), load() is rejected.
C22_BlankLinesRejected ==
    \A p \in Procs :
        (/\ last[p].op = "load"
         /\ last[p].readStatus = "ok"
         /\ last[p].readText # <<>>
         /\ hasBlankLine(last[p].readText))
            => last[p].status = "error"

\* the entries of a journal at the positions idx, in journal order
entriesAt(entries, idx) ==
    LET at == SelectSeq([i \in 1..Len(entries) |-> i], LAMBDA i : i \in idx)
    IN  [n \in 1..Len(at) |-> entries[at[n]]]

C24_RetrieveReadOnly ==
    \A p \in SeqProcs :
        /\ last[p].op = "retrieve" =>
              /\ last[p].after = last[p].before
              /\ last[p].writes = 0
        /\ call[p].op = "retrieve" => file = call[p].before

C24_Witness ==
    \E p \in SeqProcs :
        /\ last[p].op = "retrieve"
        /\ last[p].status = "error"
        /\ last[p].error = "SyntaxError"
        /\ last[p].before.exists
        /\ last[p].after = last[p].before
        /\ file = last[p].before

\* the lines of the entries written, one after another
RECURSIVE linesOf(_)
linesOf(entries) ==
    IF entries = <<>> THEN <<>>
    ELSE entryLine(Head(entries)) \o linesOf(Tail(entries))

\* the line of the entry e is in the text
hasLine(txt, e) ==
    \E i \in 1..Len(fileLines(txt)) : fileLines(txt)[i] \o <<"\n">> = entryLine(e)

\* C25: with two callers whose append() and store() calls interleave in
\* any way, each appendFile being atomic, the file is always the text it
\* had at first followed by one line for every write that succeeded, in
\* the order of the writes: no write removes or overwrites the line of
\* another, and the line of every call that has appended is in the file.
C25_NoLostAppends ==
    /\ file.text = file0.text \o linesOf(written)
    /\ \A p \in Procs :
          (/\ last[p].op \in {"append", "store"}
           /\ last[p].writes = 1
           /\ ~last[p].writeFailed)
              => hasLine(file.text, last[p].entry)

\* a store and an append that began on the same file have both written
C25_Witness ==
    /\ last[1].op = "store" /\ last[1].status = "ok" /\ last[1].writes = 1
    /\ last[2].op = "append" /\ last[2].status = "ok"
    /\ last[1].before = last[2].before
    /\ last[1].entry # last[2].entry
    /\ Len(written) = 2
    /\ hasLine(file.text, last[1].entry)
    /\ hasLine(file.text, last[2].entry)

\* C26: when the answer to store() is an object whose memory is there but
\* is not a string (a number, a boolean, an array, an object), store()
\* returns without an error, after its one request, and appends nothing:
\* the file is as it was.
C26_StoreMemoryNotString ==
    \A p \in Procs :
        (/\ last[p].op = "store"
         /\ last[p].responded
         /\ last[p].raw \in NotStringResponses)
            => /\ last[p].status = "ok"
               /\ last[p].writes = 0
               /\ last[p].after = last[p].before
               /\ Len(last[p].requests) = 1

C26_Witness ==
    \E p \in Procs :
        /\ last[p].op = "store"
        /\ last[p].raw = memoryResponse(<<"[", "\"", "a", "\"", "]">>)
        /\ last[p].status = "ok"
        /\ last[p].writes = 0
        /\ last[p].before.exists
        /\ file = last[p].before

====
